---- MODULE Spec2Model ----
(***************************************************************************)
(* Model of the usort hint family (pkg/hintrunner/zero/zerohint_usort.go)  *)
(* and of the segment-backed dictionaries (ZeroDictionary,                 *)
(* ZeroDictionaryManager, CopyZeroDictionary).                             *)
(*                                                                         *)
(* The specifications of the module:                                       *)
(*   Spec          the four usort hints run against a scope stack, memory  *)
(*   RegistrySpec  the same hints, built by the registry's constructors    *)
(*   DictSpec      the dictionary manager and its registered dictionaries  *)
(*   CopySpec      registered dictionaries and copies made of them         *)
(***************************************************************************)
EXTENDS Integers, Sequences, FiniteSets, TLC

VARIABLES
    scopes,        \* ScopeManager: the stack of frames, top frame last
    memory,        \* vm.Memory: the cells the hint operands may point at
    last,          \* the hint invoked last, its operand and the error it returned
    Dictionaries,  \* ZeroDictionaryManager.Dictionaries: segment index -> ZeroDictionary
    dataHeap,      \* the Go maps behind every ZeroDictionary.Data, by reference
    offsetHeap,    \* the uint64 cells behind every ZeroDictionary.FreeOffset, by reference
    copies,        \* the ZeroDictionary values CopyZeroDictionary returned
    numSegments,   \* vm.Memory: how many segments were allocated
    ret            \* what the dictionary operation performed last returned

vars == <<scopes, memory, last, Dictionaries, dataHeap, offsetHeap, copies, numSegments, ret>>
usortVars == <<scopes, memory, last>>
dictVars == <<Dictionaries, dataHeap, offsetHeap, copies, numSegments, ret>>

----------------------------------------------------------------------------
(* Bounds *)

MaxPos == 2        \* occurrence positions are 0 .. MaxPos
MaxFelt == 1       \* field elements used as values / keys are 0 .. MaxFelt
NumCells == 2      \* memory cells a next_item_index operand may resolve to
MaxDepth == 2      \* scope frames the model lets EnterScope stack up

MaxDicts == 2      \* ZeroDictionary objects alive: registered ones and copies

\* FreeOffset is a uint64 and its arithmetic wraps at 2^64: the width is scaled
\* down to one bit
OffsetModulus == 2

Positions == 0 .. MaxPos
Felts == 0 .. MaxFelt
Cells == 1 .. NumCells

----------------------------------------------------------------------------
(* Sequences of positions *)

RECURSIVE SeqOfSet(_)
\* the elements of a set of integers as a strictly ascending sequence
SeqOfSet(S) ==
    IF S = {} THEN <<>>
    ELSE LET m == CHOOSE x \in S : \A y \in S : y <= x
         IN  Append(SeqOfSet(S \ {m}), m)

\* utils.Reverse(positions): swaps the elements of the slice in place
Reverse(s) == [i \in 1 .. Len(s) |-> s[Len(s) + 1 - i]]

Ascending == {SeqOfSet(S) : S \in SUBSET Positions}
Descending == {Reverse(s) : s \in Ascending}

----------------------------------------------------------------------------
(* Scope payloads.  A frame binds five names; each binding carries the Go  *)
(* dynamic type of the value held (kind "none": the name is not bound).    *)

NoVar == [kind |-> "none", n |-> 0]
NoSeq == [kind |-> "none", seq |-> <<>>]
NoDict == [kind |-> "none", keys |-> {}, at |-> [k \in Felts |-> <<>>]]

EmptyFrame ==
    [usort_max_size |-> NoVar, positions |-> NoSeq, last_pos |-> NoVar,
     current_pos |-> NoVar, positions_dict |-> NoDict]

\* mem.UnknownValue: the memory value of a cell that holds nothing
UnknownValue == [known |-> FALSE, felt |-> 0]

\* memory.MemoryValueFromInt(v): the field element of v (P + v when v < 0);
\* the field is larger than 2^64, so distinct int64 give distinct felts and the
\* felt is kept as its signed representative
MemoryValueFromInt(v) == [known |-> TRUE, felt |-> v]

Top == scopes[Len(scopes)]

\* no address: what ret holds as address when the operation returns none
NoAddress == [SegmentIndex |-> 0 - 1, Offset |-> 0]

\* an operation that returned no error, no value and no address
Done == [err |-> "ok", value |-> UnknownValue, addr |-> NoAddress]

----------------------------------------------------------------------------
(* ScopeManager *)

\* ScopeManager.GetVariableValue(name): only the top frame is consulted
GetVariableValue(name) == Top[name]

\* ScopeManager.AssignVariables(bindings): binds the names in the top frame
AssignVariables(frame) == [scopes EXCEPT ![Len(scopes)] = frame]

\* ScopeManager.EnterScope(bindings): pushes a frame holding exactly bindings
EnterScope(frame) == Append(scopes, frame)

----------------------------------------------------------------------------
(* vm.Memory *)

\* Memory.WriteToAddress(address, value): a cell once written keeps its value;
\* writing a different value over it is an error
WriteAllowed(addr, value) == ~memory[addr].known \/ memory[addr] = value

WriteToAddress(addr, value) == [memory EXCEPT ![addr] = value]

----------------------------------------------------------------------------
(* The outcome of a hint invocation *)

Returned(op, err, arg) == last' = [op |-> op, err |-> err, arg |-> arg]

Fails_unbinding(op, err, arg) ==
    /\ Returned(op, err, arg)
    /\ scopes' = AssignVariables([Top EXCEPT !.last_pos = NoVar])
    /\ UNCHANGED memory

\* the hint returns err and has written nothing
Fails(op, err, arg) == Returned(op, err, arg) /\ UNCHANGED <<scopes, memory>>

----------------------------------------------------------------------------
(* UsortEnterScope *)

UsortScope_inherit(usortMaxSize) == [Top EXCEPT !.usort_max_size = usortMaxSize]

\* the bindings handed to EnterScope: __usort_max_size and nothing else
UsortScope(usortMaxSize) == [EmptyFrame EXCEPT !.usort_max_size = usortMaxSize]

newUsortEnterScopeHint(name) ==
    LET usortMaxSize == GetVariableValue("usort_max_size")
    IN  IF usortMaxSize.kind = "none"
        THEN Fails(name, "VariableNotFound: __usort_max_size", 0)
        ELSE /\ Len(scopes) < MaxDepth
             /\ scopes' = EnterScope(UsortScope(usortMaxSize))
             /\ Returned(name, "ok", 0)
             /\ UNCHANGED memory

UsortEnterScope == newUsortEnterScopeHint("UsortEnterScope") /\ UNCHANGED dictVars

----------------------------------------------------------------------------
(* UsortVerifyMultiplicityAssert *)

\* assert len(positions) == 0
AssertCheck(positions) == Len(positions) = 0

newUsortVerifyMultiplicityAssertHint(name) ==
    LET positionsInterface == GetVariableValue("positions")
    IN  IF positionsInterface.kind = "none"
        THEN Fails(name, "VariableNotFound: positions", 0)
        ELSE IF positionsInterface.kind # "u64s"
        THEN Fails(name, "casting positions into an array failed", 0)
        ELSE IF ~AssertCheck(positionsInterface.seq)
        THEN Fails(name, "assertion len(positions) == 0 failed", 0)
        ELSE Fails(name, "ok", 0)

UsortVerifyMultiplicityAssert ==
    newUsortVerifyMultiplicityAssertHint("UsortVerifyMultiplicityAssert") /\ UNCHANGED dictVars

----------------------------------------------------------------------------
(* UsortVerify *)

ReversedPositions_forward(positionsDict, value) == positionsDict.at[value]

\* positions := positionsDict[*value]; utils.Reverse(positions)
\* (a value that is no key of the map yields the nil slice)
ReversedPositions(positionsDict, value) == Reverse(positionsDict.at[value])

\* utils.Reverse works on the backing array the map entry shares with
\* `positions`, so the entry of positions_dict is reversed too
ReversedInPlace(positionsDict, value) ==
    [positionsDict EXCEPT !.at[value] = ReversedPositions(positionsDict, value)]

BoundPositions_untypedNil(positions) ==
    IF positions = <<>>
    THEN [kind |-> "nil", seq |-> <<>>]
    ELSE [kind |-> "u64s", seq |-> positions]

\* "positions": positions, a []uint64 stored in an `any`: the binding keeps the
\* slice type, for the nil slice of an absent key too
BoundPositions(positions) == [kind |-> "u64s", seq |-> positions]

\* "last_pos": 0 (an untyped constant stored in an `any`: a Go int)
VerifyLastPos == [kind |-> "int", n |-> 0]

newUsortVerifyHint(value, resolved) ==
    LET positionsDictInterface == GetVariableValue("positions_dict")
        arg == IF resolved THEN value ELSE 0 - 1
    IN  IF positionsDictInterface.kind = "none"
        THEN Fails("UsortVerify", "VariableNotFound: positions_dict", arg)
        ELSE IF positionsDictInterface.kind # "dict"
        THEN Fails("UsortVerify", "casting positions_dict into an dictionary failed", arg)
        ELSE IF ~resolved
        THEN Fails("UsortVerify", "operand: value", arg)
        ELSE LET positions == ReversedPositions(positionsDictInterface, value)
             IN  /\ scopes' = AssignVariables(
                        [Top EXCEPT !.positions_dict = ReversedInPlace(positionsDictInterface, value),
                                    !.last_pos = VerifyLastPos,
                                    !.positions = BoundPositions(positions)])
                 /\ Returned("UsortVerify", "ok", arg)
                 /\ UNCHANGED memory

UsortVerify ==
    \E value \in Felts, resolved \in BOOLEAN :
        newUsortVerifyHint(value, resolved) /\ UNCHANGED dictVars

----------------------------------------------------------------------------
(* UsortVerifyMultiplicityBody *)

\* utils.Pop(&positions): the last element; the local slice header shrinks
Pop(positions) == positions[Len(positions)]

\* the `positions` binding after the call: the hint assigns current_pos and
\* last_pos only, and the popped slice header is a local copy
PositionsAfterBody(positionsInterface) == positionsInterface

\* newNextItemIndexValue := currentPosInt - lastPosInt
NextItemIndexValue(currentPosInt, lastPosInt) == currentPosInt - lastPosInt

newUsortVerifyMultiplicityBodyHint(addr, resolved) ==
    LET name == "UsortVerifyMultiplicityBody"
        arg == IF resolved THEN addr ELSE 0
        positionsInterface == GetVariableValue("positions")
        currentPos == GetVariableValue("current_pos")
        lastPos == GetVariableValue("last_pos")
    IN  IF positionsInterface.kind = "none"
        THEN Fails(name, "VariableNotFound: positions", arg)
        ELSE IF positionsInterface.kind # "i64s"
        THEN Fails(name, "cannot cast positionsInterface to []int64", arg)
        ELSE IF Len(positionsInterface.seq) = 0
        THEN Fails(name, "cannot pop from an empty slice", arg)
        ELSE IF currentPos.kind = "none"
        THEN Fails(name, "VariableNotFound: current_pos", arg)
        ELSE IF currentPos.kind # "int64"
        THEN Fails(name, "cannot cast current_pos to int64", arg)
        ELSE IF lastPos.kind = "none"
        THEN Fails(name, "VariableNotFound: last_pos", arg)
        ELSE IF lastPos.kind # "int64"
        THEN Fails(name, "cannot cast last_pos to int64", arg)
        ELSE IF ~resolved
        THEN Fails(name, "operand: next_item_index", arg)
        ELSE LET newCurrentPos == Pop(positionsInterface.seq)
                 newNextItemIndexMemoryValue ==
                     MemoryValueFromInt(NextItemIndexValue(currentPos.n, lastPos.n))
             IN  IF ~WriteAllowed(addr, newNextItemIndexMemoryValue)
                 THEN Fails(name, "memory write", arg)
                 ELSE /\ memory' = WriteToAddress(addr, newNextItemIndexMemoryValue)
                      /\ scopes' = AssignVariables(
                             [Top EXCEPT !.positions = PositionsAfterBody(positionsInterface),
                                         !.current_pos = [kind |-> "int64", n |-> newCurrentPos],
                                         !.last_pos = [kind |-> "int64", n |-> currentPos.n + 1]])
                      /\ Returned(name, "ok", arg)

UsortVerifyMultiplicityBody ==
    \E addr \in Cells, resolved \in BOOLEAN :
        newUsortVerifyMultiplicityBodyHint(addr, resolved) /\ UNCHANGED dictVars

----------------------------------------------------------------------------
(* The states a run of the hints starts from: one frame (the main scope),  *)
(* bound by earlier hints of the program, and unwritten operand cells.     *)

\* positions_dict as the earlier phase builds it: every input index is
\* recorded, in ascending order, under the value found at that index
PositionsDictOf(valueAt) ==
    [kind |-> "dict",
     keys |-> {valueAt[i] : i \in Positions},
     at |-> [k \in Felts |-> SeqOfSet({i \in Positions : valueAt[i] = k})]]

MaxSizeVals == {NoVar} \cup [kind : {"felt"}, n : 1 .. 2]
PositionsVals == {NoSeq} \cup [kind : {"u64s", "i64s"}, seq : Descending]
LastPosVals == {NoVar, [kind |-> "int", n |-> 0]} \cup [kind : {"int64"}, n : 0 .. MaxPos + 1]
CurrentPosVals == {NoVar, [kind |-> "int", n |-> 0]} \cup [kind : {"int64"}, n : Positions]
PositionsDictVals ==
    {NoDict, [NoDict EXCEPT !.kind = "other"]}
        \cup {PositionsDictOf(valueAt) : valueAt \in [Positions -> Felts]}

\* frames met inside the multiplicity loop: every binding of positions,
\* last_pos and current_pos, next to one positions_dict, an ill-typed one or none
LoopFrames ==
    [usort_max_size : MaxSizeVals, positions : PositionsVals, last_pos : LastPosVals,
     current_pos : CurrentPosVals,
     positions_dict : {NoDict, [NoDict EXCEPT !.kind = "other"],
                       PositionsDictOf([i \in Positions |-> i % (MaxFelt + 1)])}]

\* frames met before a Verify: every positions_dict, next to few bindings of
\* the names Verify overwrites
VerifyFrames ==
    [usort_max_size : {NoVar, [kind |-> "felt", n |-> 1]},
     positions : {NoSeq, [kind |-> "u64s", seq |-> <<>>]},
     last_pos : {NoVar, [kind |-> "int64", n |-> 1]},
     current_pos : CurrentPosVals,
     positions_dict : PositionsDictVals]

InitialFrames == LoopFrames \cup VerifyFrames

NoCall == [op |-> "none", err |-> "ok", arg |-> 0]

Init ==
    /\ scopes \in {<<f>> : f \in InitialFrames}
    /\ memory = [c \in Cells |-> UnknownValue]
    /\ last = NoCall
    /\ Dictionaries = <<>>
    /\ dataHeap = <<>>
    /\ offsetHeap = <<>>
    /\ copies = <<>>
    /\ numSegments = 0
    /\ ret = Done

Next ==
    \/ UsortEnterScope
    \/ UsortVerifyMultiplicityAssert
    \/ UsortVerify
    \/ UsortVerifyMultiplicityBody

Spec == Init /\ [][Next]_vars

\* The hints run on memory the program has partly written already: an operand
\* cell may hold a value before the first hint is invoked.
WrittenValues == {UnknownValue, MemoryValueFromInt(0)}

WrittenInit ==
    /\ scopes \in {<<f>> : f \in LoopFrames}
    /\ memory \in [Cells -> WrittenValues]
    /\ last = NoCall
    /\ Dictionaries = <<>>
    /\ dataHeap = <<>>
    /\ offsetHeap = <<>>
    /\ copies = <<>>
    /\ numSegments = 0
    /\ ret = Done

WrittenSpec == WrittenInit /\ [][Next]_vars

----------------------------------------------------------------------------
(* The hints as the registry builds them: each create...Hinter resolves    *)
(* its operand, if it has one, and returns a hint; last.op records the     *)
(* registry name the hint was asked for under.                             *)

\* createUsortEnterScopeHinter: return newUsortEnterScopeHint(), nil
createUsortEnterScopeHinter ==
    newUsortEnterScopeHint("UsortEnterScope") /\ UNCHANGED dictVars

\* createUsortVerifyMultiplicityAssertHinter: return newUsortEnterScopeHint(), nil
createUsortVerifyMultiplicityAssertHinter ==
    newUsortEnterScopeHint("UsortVerifyMultiplicityAssert") /\ UNCHANGED dictVars

\* createUsortVerifyHinter: return newUsortVerifyHint(value), nil
createUsortVerifyHinter ==
    \E value \in Felts, resolved \in BOOLEAN :
        newUsortVerifyHint(value, resolved) /\ UNCHANGED dictVars

\* createUsortVerifyMultiplicityBodyHinter:
\* return newUsortVerifyMultiplicityBodyHint(nextItemIndex), nil
createUsortVerifyMultiplicityBodyHinter ==
    \E addr \in Cells, resolved \in BOOLEAN :
        newUsortVerifyMultiplicityBodyHint(addr, resolved) /\ UNCHANGED dictVars

RegistryNext ==
    \/ createUsortEnterScopeHinter
    \/ createUsortVerifyMultiplicityAssertHinter
    \/ createUsortVerifyHinter
    \/ createUsortVerifyMultiplicityBodyHinter

\* the four hints, each run as the hint its constructor returns
RegistrySpec == Init /\ [][RegistryNext]_vars

----------------------------------------------------------------------------
(* Properties of the usort hints.  A step is recognised by the call it     *)
(* records in last'; unprimed names are the state before the invocation.   *)

BodyReturned(err) == last'.op = "UsortVerifyMultiplicityBody" /\ last'.err = err
BodySucceeds == BodyReturned("ok")
AssertStep == last'.op = "UsortVerifyMultiplicityAssert"
VerifySucceeds == last'.op = "UsortVerify" /\ last'.err = "ok"
EnterScopeStep == last'.op = "UsortEnterScope"

IsSequence(positionsInterface) == positionsInterface.kind \in {"u64s", "i64s"}

\* C1: a successful VerifyMultiplicityBody, run where `positions` ends with p
\* and `last_pos` is L, writes p - L to the next_item_index cell and leaves
\* last_pos = p + 1: the value popped by this invocation drives both.
C1_PoppedValueDrivesGapAndCursor ==
    [][BodySucceeds =>
          LET p == Pop(Top.positions.seq)
              L == Top.last_pos.n
          IN  /\ memory'[last'.arg] = MemoryValueFromInt(p - L)
              /\ Top'.last_pos = [kind |-> "int64", n |-> p + 1]]_vars

\* C2: after a successful VerifyMultiplicityBody the `positions` of the
\* current scope is the previous sequence without its last element.
C2_BodyRemovesLastPosition ==
    [][BodySucceeds =>
          /\ IsSequence(Top'.positions)
          /\ Len(Top'.positions.seq) = Len(Top.positions.seq) - 1
          /\ Top'.positions.seq = SubSeq(Top.positions.seq, 1, Len(Top.positions.seq) - 1)]_vars

\* C3: VerifyMultiplicityAssert succeeds exactly when the `positions` sequence
\* of the current scope is empty, fails with the len(positions) == 0 assertion
\* error when it is not empty, and never changes the scope or memory.
C3_AssertIffPositionsEmpty ==
    [][AssertStep =>
          /\ (last'.err = "ok") <=> (IsSequence(Top.positions) /\ Len(Top.positions.seq) = 0)
          /\ (IsSequence(Top.positions) /\ Len(Top.positions.seq) > 0)
                => last'.err = "assertion len(positions) == 0 failed"
          /\ scopes' = scopes
          /\ memory' = memory]_vars

\* C4: a successful Verify(v), v a key of positions_dict, binds `positions` to
\* the element-wise reverse of positions_dict[v] as it was before the call and
\* binds `last_pos` to 0.
C4_VerifyBindsReversedPositions ==
    [][(VerifySucceeds /\ last'.arg \in Top.positions_dict.keys) =>
          LET before == Top.positions_dict.at[last'.arg]
              after == Top'.positions
          IN  /\ IsSequence(after)
              /\ Len(after.seq) = Len(before)
              /\ \A i \in 1 .. Len(before) : after.seq[i] = before[Len(before) + 1 - i]
              /\ Top'.last_pos.kind # "none"
              /\ Top'.last_pos.n = 0]_vars

C4_Witness ==
    /\ last.op = "UsortVerify" /\ last.err = "ok"
    /\ last.arg \in Top.positions_dict.keys
    /\ Len(Top.positions.seq) >= 2
    /\ Top.positions.seq[1] > Top.positions.seq[2]

OtherNames == {"positions", "last_pos", "current_pos", "positions_dict"}

\* C5: with __usort_max_size bound in the top frame, EnterScope pushes exactly
\* one frame, whose only binding is __usort_max_size with the value of the
\* enclosing frame, and leaves the enclosing frames as they were beneath it.
C5_EnterScopePushesOnlyMaxSize ==
    [][(EnterScopeStep /\ Top.usort_max_size.kind # "none") =>
          /\ last'.err = "ok"
          /\ Len(scopes') = Len(scopes) + 1
          /\ SubSeq(scopes', 1, Len(scopes)) = scopes
          /\ Top'.usort_max_size = Top.usort_max_size
          /\ \A name \in OtherNames : Top'[name].kind = "none"]_vars

C5_Witness ==
    /\ last.op = "UsortEnterScope" /\ last.err = "ok"
    /\ Len(scopes) = 2
    /\ scopes[1].usort_max_size.n = 2
    /\ scopes[1].positions.kind # "none"
    /\ scopes[1].positions_dict.kind = "dict"

\* C6: VerifyMultiplicityBody fails when `positions` is absent, is no sequence
\* of integers or is empty, or when `last_pos` is absent or ill-typed; and it
\* never fails for lack of a scope variable other than these two.
C6_BodyNeedsOnlyPositionsAndLastPos ==
    [][last'.op = "UsortVerifyMultiplicityBody" =>
          /\ (\/ ~IsSequence(Top.positions)
              \/ Len(Top.positions.seq) = 0
              \/ Top.last_pos.kind # "int64") => last'.err # "ok"
          /\ last'.err \notin {"VariableNotFound: current_pos",
                               "VariableNotFound: __usort_max_size",
                               "VariableNotFound: positions_dict"}]_vars

VerifyJustSucceeded == last.op = "UsortVerify" /\ last.err = "ok"

BodyStep == last'.op = "UsortVerifyMultiplicityBody"

\* C15: in the frame a successful Verify(v) leaves, with n positions bound,
\* a VerifyMultiplicityBody whose destination cell is unwritten succeeds while
\* positions remain and fails when none does, and VerifyMultiplicityAssert
\* succeeds exactly when none remains: Body and Assert accept `positions` and
\* `last_pos` as Verify stores them.
C15_BodyAndAssertAcceptVerifyOutput ==
    [][VerifyJustSucceeded =>
          /\ (BodyStep /\ last'.arg \in Cells /\ ~memory[last'.arg].known)
                => (last'.err = "ok" <=> Len(Top.positions.seq) > 0)
          /\ AssertStep => (last'.err = "ok" <=> Len(Top.positions.seq) = 0)]_vars

\* C16: the hint each registry constructor returns is the hint of that name:
\* every invocation is an invocation of newUsortEnterScopeHint,
\* newUsortVerifyMultiplicityAssertHint, newUsortVerifyHint or
\* newUsortVerifyMultiplicityBodyHint respectively; in particular the hint the
\* VerifyMultiplicityAssert constructor returns fails on a non-empty
\* `positions` and never pushes a scope frame.
C16_ConstructorsYieldNamedHints ==
    [][/\ EnterScopeStep => UsortEnterScope
       /\ AssertStep =>
             /\ UsortVerifyMultiplicityAssert
             /\ Len(scopes') = Len(scopes)
             /\ (IsSequence(Top.positions) /\ Len(Top.positions.seq) > 0)
                   => last'.err # "ok"
       /\ last'.op = "UsortVerify" => UsortVerify
       /\ BodyStep => UsortVerifyMultiplicityBody]_vars

\* the frame lets VerifyMultiplicityBody reach its write: a non-empty sequence
\* of positions and a last_pos of the types the hint casts to
BodyCanPop ==
    /\ Top.positions.kind = "i64s"
    /\ Len(Top.positions.seq) > 0
    /\ Top.last_pos.kind = "int64"

\* C17: VerifyMultiplicityBody invoked when the next_item_index cell holds a
\* value different from the gap (the position popped minus last_pos) fails
\* with the memory write error, the cell keeps its value and the scope is not
\* advanced; and no hint invocation changes a cell that holds a value.
C17_WriteOnce ==
    [][/\ (/\ BodyStep /\ last'.arg \in Cells /\ BodyCanPop
           /\ memory[last'.arg].known
           /\ memory[last'.arg] #
                  MemoryValueFromInt(Pop(Top.positions.seq) - Top.last_pos.n))
          => /\ last'.err = "memory write"
             /\ memory' = memory
             /\ scopes' = scopes
       /\ \A c \in Cells : memory[c].known => memory'[c] = memory[c]]_vars

\* C18: Verify only reads positions_dict: a successful Verify(v) leaves every
\* entry of positions_dict as it was, a second Verify(v) right after the first
\* binds the same `positions`, and VerifyMultiplicityBody leaves
\* positions_dict as it was.
C18_VerifyOnlyReadsPositionsDict ==
    [][/\ VerifySucceeds => Top'.positions_dict = Top.positions_dict
       /\ (VerifyJustSucceeded /\ VerifySucceeds /\ last'.arg = last.arg)
             => Top'.positions = Top.positions
       /\ BodyStep => Top'.positions_dict = Top.positions_dict]_vars

\* C19: Verify(v) for a value v that is no key of positions_dict succeeds,
\* binding `positions` to the empty sequence and `last_pos` to 0, and a
\* VerifyMultiplicityAssert invoked right after it succeeds.
C19_VerifyOfAbsentValue ==
    [][/\ (/\ last'.op = "UsortVerify"
           /\ last'.arg \in Felts
           /\ Top.positions_dict.kind = "dict"
           /\ last'.arg \notin Top.positions_dict.keys)
          => /\ last'.err = "ok"
             /\ IsSequence(Top'.positions)
             /\ Top'.positions.seq = <<>>
             /\ Top'.last_pos.kind # "none"
             /\ Top'.last_pos.n = 0
       /\ (/\ VerifyJustSucceeded
           /\ last.arg \notin Top.positions_dict.keys
           /\ AssertStep)
          => last'.err = "ok"]_vars

C19_Witness ==
    /\ VerifyJustSucceeded
    /\ last.arg \in Felts \ Top.positions_dict.keys
    /\ Top.positions_dict.keys # {}
    /\ Top.positions = [kind |-> "u64s", seq |-> <<>>]
    /\ Top.current_pos.kind = "int64"

UsortHints ==
    {"UsortEnterScope", "UsortVerify", "UsortVerifyMultiplicityBody",
     "UsortVerifyMultiplicityAssert"}

\* C20: whenever EnterScope, Verify, VerifyMultiplicityBody or
\* VerifyMultiplicityAssert returns an error, the scope stack (its depth and
\* every binding of every frame) and every memory cell are as they were
\* before the invocation.
C20_FailedHintChangesNothing ==
    [][(last'.op \in UsortHints /\ last'.err # "ok")
          => /\ scopes' = scopes
             /\ memory' = memory]_vars

C20_Witness ==
    /\ last.op = "UsortVerifyMultiplicityBody"
    /\ last.err = "memory write"
    /\ \A c \in Cells : memory[c].known
    /\ Top.positions_dict.kind = "dict"

----------------------------------------------------------------------------
(* ZeroDictionary.  Data is a Go map and FreeOffset a *uint64: a           *)
(* ZeroDictionary value holds references, and the map and the counter live *)
(* in dataHeap and offsetHeap.  A Go map is a function whose domain is its *)
(* set of keys.                                                            *)

DictKeys == {0, 1}
ConcreteValues == {MemoryValueFromInt(1), MemoryValueFromInt(2)}
DefaultValues == {UnknownValue, MemoryValueFromInt(1)}
Offsets == 0 .. OffsetModulus - 1
SegmentIndices == 0 .. MaxDicts
AddressOffsets == {0, 1}
Addresses == [SegmentIndex : SegmentIndices, Offset : AddressOffsets]
InitialData == UNION {[K -> ConcreteValues] : K \in SUBSET DictKeys}

Alive == Len(dataHeap)

\* what the operation returned: its error and, for a lookup, the value
Result(err, value) == ret' = [err |-> err, value |-> value, addr |-> NoAddress]

\* what a creation returned: the address of the segment it allocated
ResultAddress(newDictAddr) == ret' = [Done EXCEPT !.addr = newDictAddr]

\* a ZeroDictionary value read through the heaps dh and oh: the map its Data
\* refers to, its default value, and the counter its FreeOffset points at
ObservedIn(dh, oh, dict) ==
    [Data |-> dh[dict.Data], DefaultValue |-> dict.DefaultValue,
     FreeOffset |-> oh[dict.FreeOffset]]

Deref(dict) == ObservedIn(dataHeap, offsetHeap, dict)

at_inserting(d, key) ==
    IF key \in DOMAIN d.Data
    THEN [value |-> d.Data[key], err |-> "ok", data |-> d.Data]
    ELSE IF d.DefaultValue # UnknownValue
    THEN [value |-> d.DefaultValue, err |-> "ok",
          data |-> [k \in DOMAIN d.Data \cup {key} |->
                       IF k = key THEN d.DefaultValue ELSE d.Data[k]]]
    ELSE [value |-> UnknownValue, err |-> "no value for key", data |-> d.Data]

at_defaulting(d, key) ==
    IF key \in DOMAIN d.Data
    THEN [value |-> d.Data[key], err |-> "ok", data |-> d.Data]
    ELSE [value |-> d.DefaultValue, err |-> "ok", data |-> d.Data]

\* (d *ZeroDictionary) at(key): the value returned, the error, and the map
\* d.Data as the call leaves it
at(d, key) ==
    IF key \in DOMAIN d.Data
    THEN [value |-> d.Data[key], err |-> "ok", data |-> d.Data]
    ELSE IF d.DefaultValue # UnknownValue
    THEN [value |-> d.DefaultValue, err |-> "ok", data |-> d.Data]
    ELSE [value |-> UnknownValue, err |-> "no value for key", data |-> d.Data]

set_keepFirst(d, key, value) ==
    IF key \in DOMAIN d.Data
    THEN d.Data
    ELSE [k \in DOMAIN d.Data \cup {key} |-> IF k = key THEN value ELSE d.Data[k]]

\* (d *ZeroDictionary) set(key, value): d.Data[key] = value; the map afterwards
set(d, key, value) ==
    [k \in DOMAIN d.Data \cup {key} |-> IF k = key THEN value ELSE d.Data[k]]

incrementFreeOffset_saturating(d, freeOffset) ==
    IF d.FreeOffset + freeOffset >= OffsetModulus
    THEN OffsetModulus - 1
    ELSE d.FreeOffset + freeOffset

\* (d *ZeroDictionary) incrementFreeOffset(freeOffset): *d.FreeOffset += freeOffset
incrementFreeOffset(d, freeOffset) == (d.FreeOffset + freeOffset) % OffsetModulus

\* (d *ZeroDictionary) setFreeOffset(freeOffset): *d.FreeOffset = freeOffset
setFreeOffset(d, freeOffset) == freeOffset

----------------------------------------------------------------------------
(* ZeroDictionaryManager *)

Registered_exactAddress(dictAddr) ==
    dictAddr.SegmentIndex \in DOMAIN Dictionaries /\ dictAddr.Offset = 0

\* dict, ok := dm.Dictionaries[dictAddr.SegmentIndex]
Registered(dictAddr) == dictAddr.SegmentIndex \in DOMAIN Dictionaries

NoDictionary_silent ==
    /\ Result("ok", UnknownValue)
    /\ UNCHANGED <<Dictionaries, dataHeap, offsetHeap, copies, numSegments>>

\* no dictionary under the segment index: the error, and nothing written
NoDictionary ==
    /\ Result("no dictionary at address", UnknownValue)
    /\ UNCHANGED <<Dictionaries, dataHeap, offsetHeap, copies, numSegments>>

\* vm.Memory.AllocateEmptySegment(): the address of the start of a new segment,
\* whose index is the number of segments allocated before
AllocateEmptySegment == [SegmentIndex |-> numSegments, Offset |-> 0]

Register_sharedCounter(newDictAddr, d) ==
    /\ Dictionaries' = [s \in DOMAIN Dictionaries \cup {newDictAddr.SegmentIndex} |->
                           IF s = newDictAddr.SegmentIndex
                           THEN [d EXCEPT !.FreeOffset = 1]
                           ELSE Dictionaries[s]]
    /\ numSegments' = numSegments + 1
    /\ ResultAddress(newDictAddr)

\* dm.Dictionaries[newDictAddr.SegmentIndex] = d, d a dictionary over a new
\* counter; newDictAddr is returned
Register(newDictAddr, d) ==
    /\ Dictionaries' = [s \in DOMAIN Dictionaries \cup {newDictAddr.SegmentIndex} |->
                           IF s = newDictAddr.SegmentIndex THEN d ELSE Dictionaries[s]]
    /\ numSegments' = numSegments + 1
    /\ ResultAddress(newDictAddr)

NewDictionary(data) ==
    /\ Alive < MaxDicts
    /\ dataHeap' = Append(dataHeap, data)
    /\ offsetHeap' = Append(offsetHeap, 0)
    /\ Register(AllocateEmptySegment,
                [Data |-> Len(dataHeap) + 1, DefaultValue |-> UnknownValue,
                 FreeOffset |-> Len(offsetHeap) + 1])
    /\ UNCHANGED <<copies, usortVars>>

NewDefaultDictionary(defaultValue) ==
    /\ Alive < MaxDicts
    /\ dataHeap' = Append(dataHeap, <<>>)
    /\ offsetHeap' = Append(offsetHeap, 0)
    /\ Register(AllocateEmptySegment,
                [Data |-> Len(dataHeap) + 1, DefaultValue |-> defaultValue,
                 FreeOffset |-> Len(offsetHeap) + 1])
    /\ UNCHANGED <<copies, usortVars>>

GetDictionary(dictAddr) ==
    /\ IF Registered(dictAddr)
       THEN /\ Result("ok", UnknownValue)
            /\ UNCHANGED <<Dictionaries, dataHeap, offsetHeap, copies, numSegments>>
       ELSE NoDictionary
    /\ UNCHANGED usortVars

At(dictAddr, key) ==
    /\ IF Registered(dictAddr)
       THEN LET dict == Dictionaries[dictAddr.SegmentIndex]
                r == at(Deref(dict), key)
            IN  /\ Result(r.err, r.value)
                /\ dataHeap' = [dataHeap EXCEPT ![dict.Data] = r.data]
                /\ UNCHANGED <<Dictionaries, offsetHeap, copies, numSegments>>
       ELSE NoDictionary
    /\ UNCHANGED usortVars

Set(dictAddr, key, value) ==
    /\ IF Registered(dictAddr)
       THEN LET dict == Dictionaries[dictAddr.SegmentIndex]
            IN  /\ dataHeap' = [dataHeap EXCEPT ![dict.Data] = set(Deref(dict), key, value)]
                /\ Result("ok", UnknownValue)
                /\ UNCHANGED <<Dictionaries, offsetHeap, copies, numSegments>>
       ELSE NoDictionary
    /\ UNCHANGED usortVars

IncrementFreeOffset(dictAddr, incrementBy) ==
    /\ IF Registered(dictAddr)
       THEN LET dict == Dictionaries[dictAddr.SegmentIndex]
            IN  /\ offsetHeap' = [offsetHeap EXCEPT ![dict.FreeOffset] =
                                     incrementFreeOffset(Deref(dict), incrementBy)]
                /\ Result("ok", UnknownValue)
                /\ UNCHANGED <<Dictionaries, dataHeap, copies, numSegments>>
       ELSE NoDictionary
    /\ UNCHANGED usortVars

SetFreeOffset(dictAddr, freeOffset) ==
    /\ IF Registered(dictAddr)
       THEN LET dict == Dictionaries[dictAddr.SegmentIndex]
            IN  /\ offsetHeap' = [offsetHeap EXCEPT ![dict.FreeOffset] =
                                     setFreeOffset(Deref(dict), freeOffset)]
                /\ Result("ok", UnknownValue)
                /\ UNCHANGED <<Dictionaries, dataHeap, copies, numSegments>>
       ELSE NoDictionary
    /\ UNCHANGED usortVars

----------------------------------------------------------------------------
(* CopyZeroDictionary, and the ZeroDictionary methods applied to a copy *)

CopiedDictionary_sharedData(dict) ==
    [Data |-> dict.Data, DefaultValue |-> dict.DefaultValue,
     FreeOffset |-> Len(offsetHeap) + 1]

\* the ZeroDictionary returned: a new map, the same default, a new counter
CopiedDictionary(dict) ==
    [Data |-> Len(dataHeap) + 1, DefaultValue |-> dict.DefaultValue,
     FreeOffset |-> Len(offsetHeap) + 1]

\* CopyZeroDictionary(dict), dict the dictionary registered under segment seg
\* (every registered dictionary has a FreeOffset cell, so dict.FreeOffset != nil)
CopyZeroDictionary(seg) ==
    /\ seg \in DOMAIN Dictionaries
    /\ Alive < MaxDicts
    /\ LET dict == Dictionaries[seg]
       IN  /\ dataHeap' = Append(dataHeap, dataHeap[dict.Data])
           /\ offsetHeap' = Append(offsetHeap, offsetHeap[dict.FreeOffset])
           /\ copies' = Append(copies, CopiedDictionary(dict))
    /\ Result("ok", UnknownValue)
    /\ UNCHANGED <<Dictionaries, numSegments, usortVars>>

CopySet(i, key, value) ==
    /\ i \in 1 .. Len(copies)
    /\ dataHeap' = [dataHeap EXCEPT ![copies[i].Data] = set(Deref(copies[i]), key, value)]
    /\ Result("ok", UnknownValue)
    /\ UNCHANGED <<Dictionaries, offsetHeap, copies, numSegments, usortVars>>

CopyIncrementFreeOffset(i, freeOffset) ==
    /\ i \in 1 .. Len(copies)
    /\ offsetHeap' = [offsetHeap EXCEPT ![copies[i].FreeOffset] =
                         incrementFreeOffset(Deref(copies[i]), freeOffset)]
    /\ Result("ok", UnknownValue)
    /\ UNCHANGED <<Dictionaries, dataHeap, copies, numSegments, usortVars>>

CopySetFreeOffset(i, freeOffset) ==
    /\ i \in 1 .. Len(copies)
    /\ offsetHeap' = [offsetHeap EXCEPT ![copies[i].FreeOffset] =
                         setFreeOffset(Deref(copies[i]), freeOffset)]
    /\ Result("ok", UnknownValue)
    /\ UNCHANGED <<Dictionaries, dataHeap, copies, numSegments, usortVars>>

----------------------------------------------------------------------------
(* The dictionary manager of one VM run *)

\* NewZeroDictionaryManager(): no dictionary registered
NewZeroDictionaryManager ==
    /\ Dictionaries = <<>>
    /\ dataHeap = <<>>
    /\ offsetHeap = <<>>
    /\ copies = <<>>
    /\ numSegments = 0
    /\ ret = Done

DictInit ==
    /\ NewZeroDictionaryManager
    /\ scopes = <<EmptyFrame>>
    /\ memory = [c \in Cells |-> UnknownValue]
    /\ last = NoCall

DictNext ==
    \/ \E data \in InitialData : NewDictionary(data)
    \/ \E defaultValue \in DefaultValues : NewDefaultDictionary(defaultValue)
    \/ \E dictAddr \in Addresses : GetDictionary(dictAddr)
    \/ \E dictAddr \in Addresses, key \in DictKeys : At(dictAddr, key)
    \/ \E dictAddr \in Addresses, key \in DictKeys, value \in ConcreteValues :
           Set(dictAddr, key, value)
    \/ \E dictAddr \in Addresses, incrementBy \in Offsets :
           IncrementFreeOffset(dictAddr, incrementBy)
    \/ \E dictAddr \in Addresses, freeOffset \in Offsets : SetFreeOffset(dictAddr, freeOffset)

\* the manager's operations on its registered dictionaries
DictSpec == DictInit /\ [][DictNext]_vars

CopyNext ==
    \/ \E data \in InitialData : NewDictionary(data)
    \/ \E defaultValue \in DefaultValues : NewDefaultDictionary(defaultValue)
    \/ \E dictAddr \in Addresses, key \in DictKeys, value \in ConcreteValues :
           Set(dictAddr, key, value)
    \/ \E dictAddr \in Addresses, incrementBy \in Offsets :
           IncrementFreeOffset(dictAddr, incrementBy)
    \/ \E dictAddr \in Addresses, freeOffset \in Offsets : SetFreeOffset(dictAddr, freeOffset)
    \/ \E seg \in SegmentIndices : CopyZeroDictionary(seg)
    \/ \E i \in 1 .. MaxDicts, key \in DictKeys, value \in ConcreteValues : CopySet(i, key, value)
    \/ \E i \in 1 .. MaxDicts, freeOffset \in Offsets : CopyIncrementFreeOffset(i, freeOffset)
    \/ \E i \in 1 .. MaxDicts, freeOffset \in Offsets : CopySetFreeOffset(i, freeOffset)

\* registered dictionaries and their copies, each mutated on its own
CopySpec == DictInit /\ [][CopyNext]_vars

----------------------------------------------------------------------------
(* Properties of the dictionaries *)

RegisteredDictionaries == {Deref(Dictionaries[s]) : s \in DOMAIN Dictionaries}

\* C7: in a dictionary with a concrete default value v, a lookup of a key that
\* is not in data returns v and leaves data as it was: the key is not inserted.
C7_DefaultLookupDoesNotInsert ==
    \A d \in RegisteredDictionaries, key \in DictKeys :
        (key \notin DOMAIN d.Data /\ d.DefaultValue # UnknownValue)
        => /\ at(d, key).value = d.DefaultValue
           /\ at(d, key).err = "ok"
           /\ at(d, key).data = d.Data
           /\ key \notin DOMAIN at(d, key).data

C7_Witness ==
    /\ ret.err = "ok"
    /\ ret.value # UnknownValue
    /\ \E d \in RegisteredDictionaries :
          /\ d.DefaultValue = ret.value
          /\ d.Data # <<>>
          /\ DOMAIN d.Data # DictKeys
    /\ \A d \in RegisteredDictionaries : \A k \in DOMAIN d.Data : d.Data[k] # ret.value

\* C8: in a dictionary whose default value is unknown, a lookup of a key that
\* is not in data fails with the no-value-for-key error and leaves data and
\* freeOffset as they were.
C8_StrictLookupMissFails ==
    /\ [](\A d \in RegisteredDictionaries, key \in DictKeys :
            (key \notin DOMAIN d.Data /\ d.DefaultValue = UnknownValue)
            => /\ at(d, key).err = "no value for key"
               /\ at(d, key).data = d.Data)
    /\ [][ret'.err = "no value for key"
             => UNCHANGED <<Dictionaries, dataHeap, offsetHeap>>]_vars

C8_Witness ==
    /\ ret.err = "no value for key"
    /\ \E d \in RegisteredDictionaries :
          /\ d.DefaultValue = UnknownValue
          /\ d.Data # <<>>
          /\ d.FreeOffset # 0

\* C9: after set(k, v) on a registered dictionary a lookup of k returns v,
\* whatever the default value and the earlier value of k; setting (k, v) once
\* more changes nothing; and no key other than k has its entry changed.
C9_SetThenLookup ==
    \A d \in RegisteredDictionaries, key \in DictKeys, value \in ConcreteValues :
        LET after == [d EXCEPT !.Data = set(d, key, value)]
        IN  /\ at(after, key).value = value
            /\ at(after, key).err = "ok"
            /\ set(after, key, value) = after.Data
            /\ DOMAIN after.Data = DOMAIN d.Data \cup {key}
            /\ \A k \in DOMAIN d.Data \ {key} : after.Data[k] = d.Data[k]

C9_Witness ==
    /\ ret = Done
    /\ \E d \in RegisteredDictionaries :
          /\ d.DefaultValue # UnknownValue
          /\ DOMAIN d.Data = DictKeys
          /\ \E k \in DictKeys : d.Data[k] # d.DefaultValue
          /\ \E k \in DictKeys : d.Data[k] = d.DefaultValue

\* C10: a copy shows the data, default value and free offset of the dictionary
\* it was taken from, and from then on no set, incrementFreeOffset or
\* setFreeOffset on a dictionary or on a copy of one changes what the other shows.
C10_CopyIsIndependent ==
    [][/\ \A seg \in SegmentIndices :
             CopyZeroDictionary(seg)
             => ObservedIn(dataHeap', offsetHeap', copies'[Len(copies')])
                    = ObservedIn(dataHeap, offsetHeap, Dictionaries[seg])
       /\ \A i \in 1 .. Len(copies), s \in DOMAIN Dictionaries :
             \/ ObservedIn(dataHeap', offsetHeap', copies[i])
                    = ObservedIn(dataHeap, offsetHeap, copies[i])
             \/ ObservedIn(dataHeap', offsetHeap', Dictionaries[s])
                    = ObservedIn(dataHeap, offsetHeap, Dictionaries[s])]_vars

C10_Witness ==
    /\ Len(copies) = 1
    /\ DOMAIN Dictionaries = {0}
    /\ LET c == Deref(copies[1])
           d == Deref(Dictionaries[0])
       IN  /\ c.DefaultValue = d.DefaultValue
           /\ c.Data # d.Data
           /\ c.Data # <<>>
           /\ d.Data # <<>>
           /\ c.FreeOffset # d.FreeOffset

\* C11: from free offset f, incrementFreeOffset(n) followed by
\* incrementFreeOffset(m) leaves the free offset a single
\* setFreeOffset(f + n + m) leaves, the sum taken in the unsigned width of the
\* counter; and a step that changes a free offset changes no data and no
\* default value.
C11_IncrementsAddUp ==
    /\ [](\A d \in RegisteredDictionaries, n \in Offsets, m \in Offsets :
            LET f == d.FreeOffset
                once == [d EXCEPT !.FreeOffset = incrementFreeOffset(d, n)]
                twice == incrementFreeOffset(once, m)
            IN  twice = setFreeOffset(d, (f + n + m) % OffsetModulus))
    /\ [][(\E r \in 1 .. Len(offsetHeap) : offsetHeap'[r] # offsetHeap[r])
             => /\ dataHeap' = dataHeap
                /\ Dictionaries' = Dictionaries]_vars

C11_Witness ==
    /\ ret = Done
    /\ Len(offsetHeap) = 2
    /\ offsetHeap[1] = OffsetModulus - 1
    /\ offsetHeap[2] = 0
    /\ \A s \in DOMAIN Dictionaries :
          /\ Deref(Dictionaries[s]).Data # <<>>
          /\ Dictionaries[s].DefaultValue # UnknownValue

\* C12: a creation returns an address whose segment index no earlier creation
\* returned; under that index the manager then holds the dictionary just
\* created, with free offset 0 (NewDictionary: the data given and the unknown
\* default; NewDefaultDictionary: no data and the default given); every index
\* handed out so far maps to one dictionary; and what the dictionaries
\* registered before show is what they showed before the creation.
C12_CreationRegistersFreshSegment ==
    /\ [](DOMAIN Dictionaries = 0 .. numSegments - 1)
    /\ [][numSegments' # numSegments =>
             LET created == ObservedIn(dataHeap', offsetHeap',
                                       Dictionaries'[ret'.addr.SegmentIndex])
             IN  /\ ret'.addr.SegmentIndex \notin DOMAIN Dictionaries
                 /\ DOMAIN Dictionaries' = DOMAIN Dictionaries \cup {ret'.addr.SegmentIndex}
                 /\ \A data \in InitialData :
                        NewDictionary(data)
                        => created = [Data |-> data, DefaultValue |-> UnknownValue,
                                      FreeOffset |-> 0]
                 /\ \A defaultValue \in DefaultValues :
                        NewDefaultDictionary(defaultValue)
                        => created = [Data |-> <<>>, DefaultValue |-> defaultValue,
                                      FreeOffset |-> 0]
                 /\ \A s \in DOMAIN Dictionaries :
                        ObservedIn(dataHeap', offsetHeap', Dictionaries'[s])
                            = Deref(Dictionaries[s])]_vars

C12_Witness ==
    /\ ret.addr.SegmentIndex = 1
    /\ DOMAIN Dictionaries = {0, 1}
    /\ Deref(Dictionaries[0]).FreeOffset # 0
    /\ Deref(Dictionaries[0]).Data # <<>>
    /\ Dictionaries[0].DefaultValue # UnknownValue
    /\ Deref(Dictionaries[1]) = [Data |-> <<>>, DefaultValue |-> MemoryValueFromInt(1),
                                 FreeOffset |-> 0]

\* the manager operation issued with address dictAddr, whatever its other arguments
IssuedWith(dictAddr) ==
    \/ GetDictionary(dictAddr)
    \/ \E key \in DictKeys : At(dictAddr, key)
    \/ \E key \in DictKeys, value \in ConcreteValues : Set(dictAddr, key, value)
    \/ \E incrementBy \in Offsets : IncrementFreeOffset(dictAddr, incrementBy)
    \/ \E freeOffset \in Offsets : SetFreeOffset(dictAddr, freeOffset)

\* the operation failed for lack of a dictionary and wrote nothing
FailedUnknownDictionary ==
    /\ ret'.err = "no dictionary at address"
    /\ ret'.value = UnknownValue
    /\ UNCHANGED <<Dictionaries, dataHeap, offsetHeap, numSegments>>

\* C13: GetDictionary, At, Set, IncrementFreeOffset and SetFreeOffset issued
\* with an address whose segment index has no registered dictionary fail with
\* the no-dictionary error, register nothing and leave every registered
\* dictionary, its data and its free offset as they were.
C13_UnknownDictionaryFails ==
    \A dictAddr \in Addresses :
        ~Registered(dictAddr)
        => /\ ENABLED IssuedWith(dictAddr)
           /\ ~ENABLED (IssuedWith(dictAddr) /\ ~FailedUnknownDictionary)

C13_Witness ==
    /\ ret.err = "no dictionary at address"
    /\ DOMAIN Dictionaries = {0}
    /\ Deref(Dictionaries[0]).Data # <<>>
    /\ Deref(Dictionaries[0]).FreeOffset # 0

\* the ZeroDictionary value GetDictionary(dictAddr) returns: a copy of the
\* registered struct, holding the same map and the same counter pointer
Resolve(dictAddr) == Dictionaries[dictAddr.SegmentIndex]

\* what a ZeroDictionary value shows once the step is taken
ShownAfter(dict) == ObservedIn(dataHeap', offsetHeap', dict)

\* the addresses of the segment dictAddr lies in, whatever their offset
SameSegment(dictAddr) == [SegmentIndex : {dictAddr.SegmentIndex}, Offset : AddressOffsets]

\* after the step, every address of the segment resolves to a dictionary that
\* shows what the value resolved before the step shows
ObservedEverywhere(dictAddr) ==
    \A b \in SameSegment(dictAddr) :
        /\ b.SegmentIndex \in DOMAIN Dictionaries'
        /\ ShownAfter(Dictionaries'[b.SegmentIndex]) = ShownAfter(Resolve(dictAddr))

\* a Set, IncrementFreeOffset or SetFreeOffset issued with dictAddr whose
\* effect is not the one every address of the segment then shows
MutationNotObserved(dictAddr) ==
    LET before == Deref(Resolve(dictAddr))
        shown == ShownAfter(Resolve(dictAddr))
    IN  \/ \E key \in DictKeys, value \in ConcreteValues :
               /\ Set(dictAddr, key, value)
               /\ ~(/\ at(shown, key) = [value |-> value, err |-> "ok",
                                         data |-> set(before, key, value)]
                    /\ ObservedEverywhere(dictAddr))
        \/ \E incrementBy \in Offsets :
               /\ IncrementFreeOffset(dictAddr, incrementBy)
               /\ ~(/\ shown.FreeOffset = incrementFreeOffset(before, incrementBy)
                    /\ ObservedEverywhere(dictAddr))
        \/ \E freeOffset \in Offsets :
               /\ SetFreeOffset(dictAddr, freeOffset)
               /\ ~(/\ shown.FreeOffset = freeOffset
                    /\ ObservedEverywhere(dictAddr))

\* C14: a dictionary is identified by the segment index alone and its state is
\* shared: after Set, IncrementFreeOffset or SetFreeOffset issued with any
\* address of a registered segment, a lookup or a resolve made with any
\* address of that segment, and the ZeroDictionary value resolved before the
\* call, all show the new entry or the new free offset.
\* A value resolved at any earlier time is the value resolved just before the
\* call: the struct registered under a segment index is never replaced.
C14_SegmentIdentitySharedState ==
    /\ [](~ENABLED (\E dictAddr \in Addresses :
                       /\ dictAddr.SegmentIndex \in DOMAIN Dictionaries
                       /\ MutationNotObserved(dictAddr)))
    /\ [][\A s \in DOMAIN Dictionaries :
             s \in DOMAIN Dictionaries' /\ Dictionaries'[s] = Dictionaries[s]]_vars

C14_Witness ==
    /\ ret = Done
    /\ DOMAIN Dictionaries = {0, 1}
    /\ Deref(Dictionaries[0]).Data = <<>>
    /\ Deref(Dictionaries[0]).FreeOffset = 0
    /\ DOMAIN Deref(Dictionaries[1]).Data = DictKeys
    /\ Deref(Dictionaries[1]).FreeOffset # 0
    /\ Dictionaries[1].DefaultValue # UnknownValue

====
